---- MODULE Spec2Model ----
(***************************************************************************)
(* Model of the priority ticket queue of src/queue.go (package             *)
(* quest_system): Queue (a container/heap over a slice of tickets plus a   *)
(* number -> position index) and BankCounter.ServeCustomer.                *)
(*                                                                         *)
(* Every method of Queue holds q.mu from its first statement to its        *)
(* return, so each method is one atomic action.  Slice positions are the   *)
(* 0-based positions of the Go code; position i of the slice is element    *)
(* i + 1 of the TLA+ sequence.  time.Now() is modelled by a logical clock  *)
(* that advances by one at each issuance.  A run-time panic (an index out  *)
(* of range) is recorded in the variable aborted and ends the program.     *)
(* nextTicketNum and Number are uint32.  A uint32 u is represented by the   *)
(* integer of -2^31 .. 2^31 - 1 congruent to u modulo 2^32 (the int32 with *)
(* the same bits): 0, 1, 2, .. stand for themselves and -1 stands for      *)
(* 2^32 - 1.  On the representatives the uint32 increment is n + 1, the    *)
(* wrap from 2^32 - 1 to 0 included.  From a fresh queue at most MaxIssue  *)
(* tickets are issued, so the counter stays far from the wrap; SpecWrap    *)
(* starts the queue two issuances before it.                               *)
(***************************************************************************)
EXTENDS Integers, Sequences, FiniteSets, TLC

\* Bounds of the model.
MaxIssue == 4
MaxPriority == 1
NumWorkers == 2
\* Tickets issued while a pool of workers runs (SpecPool).
MaxPoolIssue == 2

Priorities == 0..MaxPriority
Numbers == 0..(MaxIssue - 1)
PoolNumbers == 0..(MaxPoolIssue - 1)
Workers == 1..NumWorkers

VARIABLES
    tickets,         \* Queue.tickets: the heap-ordered slice
    ticketIndexMap,  \* Queue.ticketIndexMap: Number -> position
    nextTicketNum,   \* Queue.nextTicketNum
    clock,           \* the time source read by time.Now()
    aborted,         \* TRUE once an operation has panicked
    wg,              \* BankCounter.wg: the WaitGroup counter
    mainpc,          \* the caller: "idle", "waiting" (in wg.Wait) or a scenario position
    pc,              \* per worker: position inside ServeCustomer
    wticket,         \* per worker: the ticket ServeTicket returned to it
    done,            \* per worker: wg.Done calls made by its current ServeCustomer
    hres,            \* per worker: what its handler returned ("none", "nil", "error")
    calls,           \* per worker: calls made by its current ServeCustomer (history)
    ret,             \* the last completed call of the queue API and its result
    servedLog,       \* history: CreatedAt of the tickets ServeTicket returned, in order
    discarded,       \* history: Numbers skipped by ServeTicket since the last reset
    cancelCalled,    \* history: issued Numbers CancelTicket was called with since the last reset
    cancelOK,        \* history: Numbers CancelTicket returned true for since the last reset
    lastServed,      \* history: last ticket ServeTicket returned since the last issuance
    mu,              \* Queue.mu: the thread holding it, or NoThread (SpecLock)
    loggerMutex,     \* loggerMutex: the thread holding it, or NoThread (SpecLock)
    th               \* per thread: the call it is making and its position in it (SpecLock)

qvars == <<tickets, ticketIndexMap, nextTicketNum>>
wvars == <<wg, mainpc, pc, wticket, done, hres, calls>>
hvars == <<servedLog, discarded, cancelCalled, cancelOK, lastServed>>
lvars == <<mu, loggerMutex, th>>
vars == <<tickets, ticketIndexMap, nextTicketNum, clock, aborted, wg, mainpc, pc,
          wticket, done, hres, calls, ret, servedLog, discarded, cancelCalled,
          cancelOK, lastServed, mu, loggerMutex, th>>

----------------------------------------------------------------------------
\* Data

NoTicket == [Number |-> -1, Priority |-> 0, CreatedAt |-> 0, IsCancelled |-> FALSE]

Ticket(number, priority, now) ==
    [Number |-> number, Priority |-> priority, CreatedAt |-> now, IsCancelled |-> FALSE]

EmptyMap == [x \in {} |-> 0]

MapSet(m, k, v) == [x \in (DOMAIN m) \cup {k} |-> IF x = k THEN v ELSE m[x]]

MapDelete(m, k) == [x \in (DOMAIN m) \ {k} |-> m[x]]

At(ts, i) == ts[i + 1]

Heap(ts, m) == [tickets |-> ts, ticketIndexMap |-> m]

\* The threads of the lock-level model (SpecLock): one worker goroutine
\* running ServeCustomer and another caller.
LockThreads == {"worker", "caller"}

NoThread == "none"

\* A thread that is making no call.
NoCall == [pc |-> "idle", op |-> "none", arg |-> 0, found |-> FALSE]

\* The calls of one ServeCustomer invocation before it makes any: how many
\* times it has called ServeTicket and the handler, and the handler's argument.
NoCalls == [ServeTicket |-> 0, serveFn |-> 0, arg |-> NoTicket]

----------------------------------------------------------------------------
\* heap.Interface as implemented by Queue

QLen(h) == Len(h.tickets)

\* Less without the tie-break on CreatedAt.
LessPriorityOnly(ts, i, j) == At(ts, i).Priority > At(ts, j).Priority

\* Less with the comparison of priorities reversed.
LessAscending(ts, i, j) ==
    IF At(ts, i).Priority = At(ts, j).Priority
    THEN At(ts, i).CreatedAt < At(ts, j).CreatedAt
    ELSE At(ts, i).Priority < At(ts, j).Priority

Less(ts, i, j) ==
    IF At(ts, i).Priority = At(ts, j).Priority
    THEN At(ts, i).CreatedAt < At(ts, j).CreatedAt
    ELSE At(ts, i).Priority > At(ts, j).Priority

Swap(h, i, j) ==
    LET ts == [h.tickets EXCEPT ![i + 1] = h.tickets[j + 1],
                                ![j + 1] = h.tickets[i + 1]]
        m1 == MapSet(h.ticketIndexMap, At(ts, i).Number, i)
        m2 == MapSet(m1, At(ts, j).Number, j)
    IN  Heap(ts, m2)

Push(h, t) ==
    LET ts == Append(h.tickets, t)
    IN  Heap(ts, MapSet(h.ticketIndexMap, t.Number, Len(ts) - 1))

\* Pop leaving the entry of the removed ticket in the index.
PopKeepIndex(h) ==
    LET n == Len(h.tickets)
        t == At(h.tickets, n - 1)
    IN  [h |-> Heap(SubSeq(h.tickets, 1, n - 1), h.ticketIndexMap),
         ticket |-> t]

Pop(h) ==
    LET n == Len(h.tickets)
        t == At(h.tickets, n - 1)
    IN  [h |-> Heap(SubSeq(h.tickets, 1, n - 1), MapDelete(h.ticketIndexMap, t.Number)),
         ticket |-> t]

----------------------------------------------------------------------------
\* container/heap

RECURSIVE up(_, _)
up(h, j) ==
    IF j = 0
    THEN h
    ELSE LET i == (j - 1) \div 2
         IN  IF ~Less(h.tickets, j, i)
             THEN h
             ELSE up(Swap(h, i, j), i)

RECURSIVE down(_, _, _)
down(h, i, n) ==
    LET j1 == 2 * i + 1
    IN  IF j1 >= n
        THEN h
        ELSE LET j2 == j1 + 1
                 j == IF j2 < n /\ Less(h.tickets, j2, j1) THEN j2 ELSE j1
             IN  IF ~Less(h.tickets, j, i)
                 THEN h
                 ELSE down(Swap(h, i, j), j, n)

HeapPush(h, t) ==
    LET h1 == Push(h, t)
    IN  up(h1, QLen(h1) - 1)

\* heap.Pop without the sift-down of the element moved to the root.
HeapPopNoDown(h) ==
    LET n == QLen(h) - 1
        h1 == Swap(h, 0, n)
    IN  Pop(h1)

HeapPop(h) ==
    LET n == QLen(h) - 1
        h1 == Swap(h, 0, n)
        h2 == down(h1, 0, n)
    IN  Pop(h2)

----------------------------------------------------------------------------
\* Queue methods, as functions of the queue's state

\* The loop of ServeTicket: pops until a ticket that is not cancelled comes
\* out or the slice is empty; skipped collects the discarded tickets.
RECURSIVE ServeLoop(_, _)

\* ServeTicket returning the first valid ticket without removing it.
ServeLoopKeep(h, skipped) ==
    IF QLen(h) > 0
    THEN LET p == HeapPop(h)
         IN  IF p.ticket.IsCancelled
             THEN ServeLoop(p.h, Append(skipped, p.ticket))
             ELSE [h |-> h, ticket |-> p.ticket, found |-> TRUE, skipped |-> skipped]
    ELSE [h |-> h, ticket |-> NoTicket, found |-> FALSE, skipped |-> skipped]

\* ServeLoop giving up at the first cancelled ticket it extracts.
ServeLoopStop(h, skipped) ==
    IF QLen(h) > 0
    THEN LET p == HeapPop(h)
         IN  IF p.ticket.IsCancelled
             THEN [h |-> p.h, ticket |-> NoTicket, found |-> FALSE,
                   skipped |-> Append(skipped, p.ticket)]
             ELSE [h |-> p.h, ticket |-> p.ticket, found |-> TRUE, skipped |-> skipped]
    ELSE [h |-> h, ticket |-> NoTicket, found |-> FALSE, skipped |-> skipped]

ServeLoop(h, skipped) ==
    IF QLen(h) > 0
    THEN LET p == HeapPop(h)
         IN  IF p.ticket.IsCancelled
             THEN ServeLoop(p.h, Append(skipped, p.ticket))
             ELSE [h |-> p.h, ticket |-> p.ticket, found |-> TRUE, skipped |-> skipped]
    ELSE [h |-> h, ticket |-> NoTicket, found |-> FALSE, skipped |-> skipped]

\* ResetTicketNumber allowing the reset only on an empty slice.
ResetAllowedEmptyOnly(ts) == Len(ts) = 0

\* The scan of ResetTicketNumber: TRUE when the reset is allowed.
ResetAllowed(ts) == \A i \in 1..Len(ts) : ts[i].IsCancelled

\* The index lookup of CancelTicket and IsValidTicket is out of the slice.
OutOfRange(ts, index) == index < 0 \/ index >= Len(ts)

Result(op, n, res, panic) ==
    [op |-> op, n |-> n, res |-> res, panic |-> panic]

----------------------------------------------------------------------------
Init ==
    /\ tickets = <<>>
    /\ ticketIndexMap = EmptyMap
    /\ nextTicketNum = 0
    /\ clock = 0
    /\ aborted = FALSE
    /\ wg = 0
    /\ mainpc = "idle"
    /\ pc = [w \in Workers |-> "idle"]
    /\ wticket = [w \in Workers |-> NoTicket]
    /\ done = [w \in Workers |-> 0]
    /\ hres = [w \in Workers |-> "none"]
    /\ calls = [w \in Workers |-> NoCalls]
    /\ ret = Result("New", -1, TRUE, FALSE)
    /\ servedLog = <<>>
    /\ discarded = {}
    /\ cancelCalled = {}
    /\ cancelOK = {}
    /\ lastServed = NoTicket
    /\ mu = NoThread
    /\ loggerMutex = NoThread
    /\ th = [t \in LockThreads |-> NoCall]

IssueTicket(priority) ==
    /\ ~aborted
    /\ UNCHANGED lvars
    /\ clock < MaxIssue
    /\ LET now == clock + 1
           ticket == Ticket(nextTicketNum, priority, now)
           h1 == HeapPush(Heap(tickets, ticketIndexMap), ticket)
       IN  /\ tickets' = h1.tickets
           /\ nextTicketNum' = nextTicketNum + 1
           /\ ticketIndexMap' = MapSet(h1.ticketIndexMap, ticket.Number, Len(h1.tickets) - 1)
           /\ clock' = now
           /\ ret' = Result("IssueTicket", ticket.Number, TRUE, FALSE)
    /\ lastServed' = NoTicket
    /\ UNCHANGED <<aborted, wvars, servedLog, discarded, cancelCalled, cancelOK>>

CancelTicket(ticketNumber) ==
    /\ ~aborted
    /\ UNCHANGED lvars
    /\ cancelCalled' = IF ticketNumber < nextTicketNum
                       THEN cancelCalled \cup {ticketNumber}
                       ELSE cancelCalled
    /\ IF ticketNumber \in DOMAIN ticketIndexMap
       THEN LET index == ticketIndexMap[ticketNumber]
            IN  IF OutOfRange(tickets, index)
                THEN /\ aborted' = TRUE
                     /\ ret' = Result("CancelTicket", ticketNumber, FALSE, TRUE)
                     /\ UNCHANGED <<tickets, cancelOK>>
                ELSE /\ tickets' = [tickets EXCEPT ![index + 1].IsCancelled = TRUE]
                     /\ ret' = Result("CancelTicket", ticketNumber, TRUE, FALSE)
                     /\ cancelOK' = cancelOK \cup {ticketNumber}
                     /\ UNCHANGED aborted
       ELSE /\ ret' = Result("CancelTicket", ticketNumber, FALSE, FALSE)
            /\ UNCHANGED <<tickets, cancelOK, aborted>>
    /\ UNCHANGED <<ticketIndexMap, nextTicketNum, clock, wvars, servedLog, discarded,
                   lastServed>>

IsValidTicket(ticketNumber) ==
    /\ ~aborted
    /\ UNCHANGED lvars
    /\ IF ticketNumber \in DOMAIN ticketIndexMap
       THEN LET index == ticketIndexMap[ticketNumber]
            IN  IF OutOfRange(tickets, index)
                THEN /\ aborted' = TRUE
                     /\ ret' = Result("IsValidTicket", ticketNumber, FALSE, TRUE)
                ELSE /\ ret' = Result("IsValidTicket", ticketNumber,
                                      ~At(tickets, index).IsCancelled, FALSE)
                     /\ UNCHANGED aborted
       ELSE /\ ret' = Result("IsValidTicket", ticketNumber, FALSE, FALSE)
            /\ UNCHANGED aborted
    /\ UNCHANGED <<qvars, clock, wvars, hvars>>

\* The effect of one ServeTicket call on the queue and on the history.
ServeEffect(r) ==
    /\ tickets' = r.h.tickets
    /\ ticketIndexMap' = r.h.ticketIndexMap
    /\ servedLog' = IF r.found THEN Append(servedLog, r.ticket.CreatedAt) ELSE servedLog
    /\ discarded' = discarded \cup {r.skipped[i].Number : i \in 1..Len(r.skipped)}
    /\ lastServed' = IF r.found THEN r.ticket ELSE lastServed
    /\ ret' = Result("ServeTicket", r.ticket.Number, r.found, FALSE)
    /\ UNCHANGED <<nextTicketNum, clock, aborted, cancelCalled, cancelOK>>

ServeTicket ==
    /\ ~aborted
    /\ UNCHANGED lvars
    /\ ServeEffect(ServeLoop(Heap(tickets, ticketIndexMap), <<>>))
    /\ UNCHANGED wvars

ResetTicketNumber ==
    /\ ~aborted
    /\ UNCHANGED lvars
    /\ IF ResetAllowed(tickets)
       THEN /\ nextTicketNum' = 0
            /\ tickets' = <<>>
            /\ ticketIndexMap' = EmptyMap
            /\ ret' = Result("ResetTicketNumber", -1, TRUE, FALSE)
            /\ discarded' = {}
            /\ cancelCalled' = {}
            /\ cancelOK' = {}
            /\ lastServed' = NoTicket
       ELSE /\ ret' = Result("ResetTicketNumber", -1, FALSE, FALSE)
            /\ UNCHANGED <<qvars, discarded, cancelCalled, cancelOK, lastServed>>
    /\ UNCHANGED <<clock, aborted, wvars, servedLog>>

GetQueueSize ==
    /\ ~aborted
    /\ UNCHANGED lvars
    /\ ret' = Result("GetQueueSize", Len(tickets), TRUE, FALSE)
    /\ UNCHANGED <<qvars, clock, aborted, wvars, hvars>>

GetTicketIndex(ticketNumber) ==
    /\ ~aborted
    /\ UNCHANGED lvars
    /\ ret' = IF ticketNumber \in DOMAIN ticketIndexMap
              THEN Result("GetTicketIndex", ticketIndexMap[ticketNumber], TRUE, FALSE)
              ELSE Result("GetTicketIndex", 0, FALSE, FALSE)
    /\ UNCHANGED <<qvars, clock, aborted, wvars, hvars>>

----------------------------------------------------------------------------
\* BankCounter: the caller registers NumWorkers units on wg, starts one
\* goroutine per unit, each running ServeCustomer, and waits on wg.

Dispatch ==
    /\ ~aborted
    /\ UNCHANGED lvars
    /\ mainpc = "idle"
    /\ wg' = wg + NumWorkers
    /\ mainpc' = "waiting"
    /\ pc' = [w \in Workers |-> "start"]
    /\ wticket' = [w \in Workers |-> NoTicket]
    /\ done' = [w \in Workers |-> 0]
    /\ hres' = [w \in Workers |-> "none"]
    /\ calls' = [w \in Workers |-> NoCalls]
    /\ UNCHANGED <<qvars, clock, aborted, ret, hvars>>

\* ServeCustomerServe going on to the handler after an empty-queue error.
ServeCustomerServeAlways(w) ==
    /\ ~aborted
    /\ UNCHANGED lvars
    /\ pc[w] = "start"
    /\ LET r == ServeLoop(Heap(tickets, ticketIndexMap), <<>>)
       IN  /\ ServeEffect(r)
           /\ pc' = [pc EXCEPT ![w] = "handler"]
           /\ wticket' = [wticket EXCEPT ![w] = r.ticket]
           /\ calls' = [calls EXCEPT ![w] =
                           [ServeTicket |-> @.ServeTicket + 1,
                            serveFn |-> @.serveFn + 1,
                            arg |-> r.ticket]]
    /\ UNCHANGED <<wg, mainpc, done, hres>>

\* ServeCustomer up to the handler call: bc.queue.ServeTicket(); on an error
\* it prints the error and returns before the deferred wg.Done is registered.
ServeCustomerServe(w) ==
    /\ ~aborted
    /\ UNCHANGED lvars
    /\ pc[w] = "start"
    /\ LET r == ServeLoop(Heap(tickets, ticketIndexMap), <<>>)
       IN  /\ ServeEffect(r)
           /\ IF r.found
              THEN /\ pc' = [pc EXCEPT ![w] = "handler"]
                   /\ wticket' = [wticket EXCEPT ![w] = r.ticket]
                   /\ calls' = [calls EXCEPT ![w] =
                                   [ServeTicket |-> @.ServeTicket + 1,
                                    serveFn |-> @.serveFn + 1,
                                    arg |-> r.ticket]]
              ELSE /\ pc' = [pc EXCEPT ![w] = "returned"]
                   /\ calls' = [calls EXCEPT ![w].ServeTicket = @ + 1]
                   /\ UNCHANGED wticket
    /\ UNCHANGED <<wg, mainpc, done, hres>>

\* ServeCustomerHandler putting the ticket back into the queue when the
\* handler fails.
ServeCustomerHandlerRequeue(w, result) ==
    /\ ~aborted
    /\ UNCHANGED lvars
    /\ pc[w] = "handler"
    /\ hres' = [hres EXCEPT ![w] = result]
    /\ wg' = wg - 1
    /\ done' = [done EXCEPT ![w] = done[w] + 1]
    /\ pc' = [pc EXCEPT ![w] = "returned"]
    /\ IF result = "error"
       THEN LET h1 == HeapPush(Heap(tickets, ticketIndexMap), wticket[w])
            IN  /\ tickets' = h1.tickets
                /\ ticketIndexMap' = h1.ticketIndexMap
       ELSE UNCHANGED <<tickets, ticketIndexMap>>
    /\ UNCHANGED <<nextTicketNum, clock, aborted, mainpc, wticket, calls, ret, hvars>>

\* The handler returns nil or an error; ServeCustomer logs the outcome and
\* returns, running the deferred wg.Done.
ServeCustomerHandler(w, result) ==
    /\ ~aborted
    /\ UNCHANGED lvars
    /\ pc[w] = "handler"
    /\ hres' = [hres EXCEPT ![w] = result]
    /\ wg' = wg - 1
    /\ done' = [done EXCEPT ![w] = done[w] + 1]
    /\ pc' = [pc EXCEPT ![w] = "returned"]
    /\ UNCHANGED <<qvars, clock, aborted, mainpc, wticket, calls, ret, hvars>>

\* bc.wg.Wait() returns once the counter is zero.
WaitReturn ==
    /\ ~aborted
    /\ UNCHANGED lvars
    /\ mainpc = "waiting"
    /\ wg = 0
    /\ mainpc' = "idle"
    /\ pc' = [w \in Workers |-> "idle"]
    /\ UNCHANGED <<qvars, clock, aborted, wg, wticket, done, hres, calls, ret, hvars>>

----------------------------------------------------------------------------
\* The mutating operations of the queue, called by any goroutine.
QueueOp ==
    \/ \E p \in Priorities : IssueTicket(p)
    \/ \E n \in Numbers : CancelTicket(n)
    \/ ServeTicket
    \/ ResetTicketNumber

\* The queries of the queue.
QueryOp ==
    \/ \E n \in Numbers : IsValidTicket(n)
    \/ GetQueueSize
    \/ \E n \in Numbers : GetTicketIndex(n)

PoolOp ==
    \/ Dispatch
    \/ \E w \in Workers : ServeCustomerServe(w)
    \/ \E w \in Workers, result \in {"nil", "error"} : ServeCustomerHandler(w, result)
    \/ WaitReturn

\* The queue alone, under any sequence of calls of its mutating operations.
Next ==
    \/ \E p \in Priorities : IssueTicket(p)
    \/ \E n \in Numbers : CancelTicket(n)
    \/ ServeTicket
    \/ ResetTicketNumber

Spec == Init /\ [][Next]_vars

\* The queue alone, under any sequence of calls of its whole API.
NextAPI ==
    \/ QueueOp
    \/ QueryOp

SpecAPI == Init /\ [][NextAPI]_vars

\* The queue served by a pool of concurrent ServeCustomer calls, with other
\* goroutines issuing, cancelling, serving and resetting at any time.
NextPool ==
    \/ (clock < MaxPoolIssue /\ \E p \in Priorities : IssueTicket(p))
    \/ \E n \in PoolNumbers : CancelTicket(n)
    \/ ServeTicket
    \/ ResetTicketNumber
    \/ PoolOp

SpecPool == Init /\ [][NextPool]_vars

\* The pool under fair scheduling: every goroutine that can take a step
\* eventually takes it (a started ServeCustomer runs, a handler returns, a
\* wg.Wait whose counter is zero returns).
FairPool ==
    /\ \A w \in Workers : WF_vars(ServeCustomerServe(w))
    /\ \A w \in Workers : WF_vars(\E result \in {"nil", "error"} : ServeCustomerHandler(w, result))
    /\ WF_vars(WaitReturn)

SpecPoolFair == Init /\ [][NextPool]_vars /\ FairPool

----------------------------------------------------------------------------
\* The scenario of TestQueueAndBankCounter, with the tickets taken by direct
\* ServeTicket calls: one caller issues Alice (priority 1), Bob (3),
\* Charlie (2) and David (3), cancels Alice's number, calls ServeTicket four
\* times and then ResetTicketNumber.  mainpc counts the caller's ServeTicket
\* calls.  Other goroutines may query the queue at any time.

ScenarioPriority == <<1, 3, 2, 3>>

ScenarioServePc == <<"idle", "served1", "served2", "served3", "served4">>

ScenarioIssue ==
    /\ mainpc = "idle"
    /\ \E k \in 1..Len(ScenarioPriority) :
          /\ clock = k - 1
          /\ IssueTicket(ScenarioPriority[k])

\* Alice holds the first number issued by the fresh queue.
ScenarioCancel ==
    /\ mainpc = "idle"
    /\ clock = Len(ScenarioPriority)
    /\ cancelCalled = {}
    /\ CancelTicket(0)

ScenarioServe ==
    /\ ~aborted
    /\ UNCHANGED lvars
    /\ clock = Len(ScenarioPriority)
    /\ cancelCalled = {0}
    /\ \E k \in 1..(Len(ScenarioServePc) - 1) :
          /\ mainpc = ScenarioServePc[k]
          /\ mainpc' = ScenarioServePc[k + 1]
    /\ ServeEffect(ServeLoop(Heap(tickets, ticketIndexMap), <<>>))
    /\ UNCHANGED <<wg, pc, wticket, done, hres, calls>>

ScenarioReset ==
    /\ mainpc = ScenarioServePc[Len(ScenarioServePc)]
    /\ ResetTicketNumber

\* The queries of the other goroutines, for the four numbers of the
\* scenario and for one that is never issued.
ScenarioQuery ==
    \/ \E n \in 0..Len(ScenarioPriority) : IsValidTicket(n)
    \/ GetQueueSize
    \/ \E n \in 0..Len(ScenarioPriority) : GetTicketIndex(n)

NextScenario ==
    \/ ScenarioIssue
    \/ ScenarioCancel
    \/ ScenarioServe
    \/ ScenarioReset
    \/ ScenarioQuery

SpecScenario == Init /\ [][NextScenario]_vars

----------------------------------------------------------------------------
\* The queue near the end of the range of nextTicketNum: 2^32 - 2 tickets
\* have been issued since construction without a reset, and all of them have
\* been served but the first one, ticket 0, of priority 0 (the others had a
\* higher priority).  The next issuances carry the numbers 2^32 - 2,
\* 2^32 - 1 (represented by -2 and -1) and then 0 again.

WrapNumbers == {-2, -1, 0}

InitWrap ==
    /\ tickets = <<Ticket(0, 0, 1)>>
    /\ ticketIndexMap = MapSet(EmptyMap, 0, 0)
    /\ nextTicketNum = -2
    /\ clock = 1
    /\ aborted = FALSE
    /\ wg = 0
    /\ mainpc = "idle"
    /\ pc = [w \in Workers |-> "idle"]
    /\ wticket = [w \in Workers |-> NoTicket]
    /\ done = [w \in Workers |-> 0]
    /\ hres = [w \in Workers |-> "none"]
    /\ calls = [w \in Workers |-> NoCalls]
    /\ ret = Result("New", -1, TRUE, FALSE)
    /\ servedLog = <<>>
    /\ discarded = {}
    /\ cancelCalled = {}
    /\ cancelOK = {}
    /\ lastServed = NoTicket
    /\ mu = NoThread
    /\ loggerMutex = NoThread
    /\ th = [t \in LockThreads |-> NoCall]

NextWrap ==
    \/ \E p \in Priorities : IssueTicket(p)
    \/ \E n \in WrapNumbers : CancelTicket(n)
    \/ ServeTicket
    \/ ResetTicketNumber

SpecWrap == InitWrap /\ [][NextWrap]_vars

----------------------------------------------------------------------------
\* The variant of src/queue_system.go and its demo (main).  IssueTicket,
\* CancelTicket and the heap methods are those of src/queue.go, statement
\* for statement.  ServeTicket deletes the index entry of each extracted
\* ticket once more, ResetTicketNumber refuses whenever the slice is not
\* empty and leaves the index as it is, and ServeCustomer takes no handler
\* and registers wg.Done before anything else.  main issues Alice, Bob,
\* Charlie and David, cancels Alice's number, starts three ServeCustomer
\* goroutines, waits for them and calls ResetTicketNumber.

DemoWorkers == 1..3

InitDemo ==
    /\ tickets = <<>>
    /\ ticketIndexMap = EmptyMap
    /\ nextTicketNum = 0
    /\ clock = 0
    /\ aborted = FALSE
    /\ wg = 0
    /\ mainpc = "idle"
    /\ pc = [w \in DemoWorkers |-> "idle"]
    /\ wticket = [w \in DemoWorkers |-> NoTicket]
    /\ done = [w \in DemoWorkers |-> 0]
    /\ hres = [w \in DemoWorkers |-> "none"]
    /\ calls = [w \in DemoWorkers |-> NoCalls]
    /\ ret = Result("New", -1, TRUE, FALSE)
    /\ servedLog = <<>>
    /\ discarded = {}
    /\ cancelCalled = {}
    /\ cancelOK = {}
    /\ lastServed = NoTicket
    /\ mu = NoThread
    /\ loggerMutex = NoThread
    /\ th = [t \in LockThreads |-> NoCall]

RECURSIVE DemoServeLoop(_, _)

DemoServeLoop(h, skipped) ==
    IF QLen(h) > 0
    THEN LET p == HeapPop(h)
             h1 == Heap(p.h.tickets, MapDelete(p.h.ticketIndexMap, p.ticket.Number))
         IN  IF p.ticket.IsCancelled
             THEN DemoServeLoop(h1, Append(skipped, p.ticket))
             ELSE [h |-> h1, ticket |-> p.ticket, found |-> TRUE, skipped |-> skipped]
    ELSE [h |-> h, ticket |-> NoTicket, found |-> FALSE, skipped |-> skipped]

\* bankCounter.wg.Add(3) and the three go statements.
DemoDispatch ==
    /\ ~aborted
    /\ UNCHANGED lvars
    /\ mainpc = "idle"
    /\ clock = Len(ScenarioPriority)
    /\ cancelCalled = {0}
    /\ wg' = wg + Cardinality(DemoWorkers)
    /\ mainpc' = "waiting"
    /\ pc' = [w \in DemoWorkers |-> "start"]
    /\ UNCHANGED <<qvars, clock, aborted, wticket, done, hres, calls, ret, hvars>>

\* The goroutine starts running ServeCustomer, whose first statement defers
\* wg.Done.
DemoServeCustomerDefer(w) ==
    /\ ~aborted
    /\ UNCHANGED lvars
    /\ pc[w] = "start"
    /\ pc' = [pc EXCEPT ![w] = "deferred"]
    /\ UNCHANGED <<qvars, clock, aborted, wg, mainpc, wticket, done, hres, calls, ret, hvars>>

\* ServeCustomer from its ServeTicket call up to the simulated service; the
\* deferred wg.Done runs on the early return after an empty-queue error.
DemoServeCustomerServe(w) ==
    /\ ~aborted
    /\ UNCHANGED lvars
    /\ pc[w] = "deferred"
    /\ LET r == DemoServeLoop(Heap(tickets, ticketIndexMap), <<>>)
       IN  /\ ServeEffect(r)
           /\ calls' = [calls EXCEPT ![w].ServeTicket = @ + 1]
           /\ IF r.found
              THEN /\ pc' = [pc EXCEPT ![w] = "serving"]
                   /\ wticket' = [wticket EXCEPT ![w] = r.ticket]
                   /\ UNCHANGED <<wg, done>>
              ELSE /\ pc' = [pc EXCEPT ![w] = "returned"]
                   /\ wg' = wg - 1
                   /\ done' = [done EXCEPT ![w] = done[w] + 1]
                   /\ UNCHANGED wticket
    /\ UNCHANGED <<mainpc, hres>>

\* The simulated service ends and ServeCustomer returns, running wg.Done.
DemoServeCustomerFinish(w) ==
    /\ ~aborted
    /\ UNCHANGED lvars
    /\ pc[w] = "serving"
    /\ pc' = [pc EXCEPT ![w] = "returned"]
    /\ wg' = wg - 1
    /\ done' = [done EXCEPT ![w] = done[w] + 1]
    /\ UNCHANGED <<qvars, clock, aborted, mainpc, wticket, hres, calls, ret, hvars>>

DemoWaitReturn ==
    /\ ~aborted
    /\ UNCHANGED lvars
    /\ mainpc = "waiting"
    /\ wg = 0
    /\ mainpc' = "waited"
    /\ UNCHANGED <<qvars, clock, aborted, wg, pc, wticket, done, hres, calls, ret, hvars>>

\* main's last call, of the variant's ResetTicketNumber.
DemoResetTicketNumber ==
    /\ ~aborted
    /\ UNCHANGED lvars
    /\ mainpc = "waited"
    /\ mainpc' = "end"
    /\ IF Len(tickets) > 0
       THEN /\ ret' = Result("ResetTicketNumber", -1, FALSE, FALSE)
            /\ UNCHANGED <<qvars, discarded, cancelCalled, cancelOK, lastServed>>
       ELSE /\ nextTicketNum' = 0
            /\ tickets' = <<>>
            /\ ret' = Result("ResetTicketNumber", -1, TRUE, FALSE)
            /\ discarded' = {}
            /\ cancelCalled' = {}
            /\ cancelOK' = {}
            /\ lastServed' = NoTicket
            /\ UNCHANGED ticketIndexMap
    /\ UNCHANGED <<clock, aborted, wg, pc, wticket, done, hres, calls, servedLog>>

NextDemo ==
    \/ ScenarioIssue
    \/ ScenarioCancel
    \/ DemoDispatch
    \/ \E w \in DemoWorkers : DemoServeCustomerDefer(w)
    \/ \E w \in DemoWorkers : DemoServeCustomerServe(w)
    \/ \E w \in DemoWorkers : DemoServeCustomerFinish(w)
    \/ DemoWaitReturn
    \/ DemoResetTicketNumber

SpecDemo == InitDemo /\ [][NextDemo]_vars

----------------------------------------------------------------------------
\* The locks.  Every method of Queue runs `q.mu.Lock(); defer q.mu.Unlock()`
\* around its body; ServeTicket and ResetTicketNumber call GetLogger inside
\* that critical section, and GetLogger and SetLogger run
\* `loggerMutex.Lock(); defer loggerMutex.Unlock()`.  ServeCustomer calls
\* ServeTicket, then the handler, then GetLogger.  A thread is at "lock"
\* (waiting in q.mu.Lock), "body" (holding q.mu, before the method's body),
\* "loglock" (waiting in loggerMutex.Lock), "logger" (holding loggerMutex),
\* "unlock" (about to return and run the deferred q.mu.Unlock), "handler"
\* (inside the handler of ServeCustomer) or "idle".  The bodies change the
\* queue as the methods above do; the history variables and ret belong to
\* the sequential specifications and are left alone here.

QueueCalls == {"IssueTicket", "CancelTicket", "ServeTicket", "ResetTicketNumber"}

LoggerCalls == {"SetLogger", "GetLogger"}

\* The state of thread t after a step of the body of its method, which
\* goes on to a GetLogger call (logs) or to the return of the method.
AfterBody(t, logs, found) ==
    [th EXCEPT ![t].pc = IF logs THEN "loglock" ELSE "unlock",
               ![t].found = found]

\* Issuances called and not yet executed.
PendingIssues ==
    Cardinality({t \in LockThreads : th[t].op = "IssueTicket" /\ th[t].pc # "idle"})

\* A caller starts a call of the queue or of the logger registry.
LockCall(t, op, arg) ==
    /\ ~aborted
    /\ t # "worker"
    /\ th[t].pc = "idle"
    /\ op = "IssueTicket" => clock + PendingIssues < MaxPoolIssue
    /\ th' = [th EXCEPT ![t] = [pc |-> IF op \in LoggerCalls THEN "loglock" ELSE "lock",
                                op |-> op, arg |-> arg, found |-> FALSE]]
    /\ UNCHANGED <<qvars, clock, aborted, wvars, ret, hvars, mu, loggerMutex>>

\* wg.Add(1) and `go bc.ServeCustomer(handler)`, once the previous call has
\* been waited for.
LockServeCustomer(t) ==
    /\ ~aborted
    /\ t = "worker"
    /\ th[t].pc = "idle"
    /\ wg = 0
    /\ wg' = wg + 1
    /\ th' = [th EXCEPT ![t] = [pc |-> "lock", op |-> "ServeCustomer", arg |-> 0,
                                found |-> FALSE]]
    /\ UNCHANGED <<qvars, clock, aborted, mainpc, pc, wticket, done, hres, calls, ret,
                   hvars, mu, loggerMutex>>

\* q.mu.Lock() returns.
MuLock(t) ==
    /\ ~aborted
    /\ th[t].pc = "lock"
    /\ mu = NoThread
    /\ mu' = t
    /\ th' = [th EXCEPT ![t].pc = "body"]
    /\ UNCHANGED <<qvars, clock, aborted, wvars, ret, hvars, loggerMutex>>

\* The body of IssueTicket.
LockIssueBody(t) ==
    /\ ~aborted
    /\ th[t].pc = "body" /\ th[t].op = "IssueTicket"
    /\ LET now == clock + 1
           ticket == Ticket(nextTicketNum, th[t].arg, now)
           h1 == HeapPush(Heap(tickets, ticketIndexMap), ticket)
       IN  /\ tickets' = h1.tickets
           /\ nextTicketNum' = nextTicketNum + 1
           /\ ticketIndexMap' = MapSet(h1.ticketIndexMap, ticket.Number, Len(h1.tickets) - 1)
           /\ clock' = now
    /\ th' = AfterBody(t, FALSE, FALSE)
    /\ UNCHANGED <<aborted, wvars, ret, hvars, mu, loggerMutex>>

\* The body of CancelTicket.
LockCancelBody(t) ==
    /\ ~aborted
    /\ th[t].pc = "body" /\ th[t].op = "CancelTicket"
    /\ LET ticketNumber == th[t].arg
       IN  IF ticketNumber \in DOMAIN ticketIndexMap
           THEN LET index == ticketIndexMap[ticketNumber]
                IN  IF OutOfRange(tickets, index)
                    THEN /\ aborted' = TRUE
                         /\ UNCHANGED tickets
                    ELSE /\ tickets' = [tickets EXCEPT ![index + 1].IsCancelled = TRUE]
                         /\ UNCHANGED aborted
           ELSE UNCHANGED <<tickets, aborted>>
    /\ th' = AfterBody(t, FALSE, FALSE)
    /\ UNCHANGED <<ticketIndexMap, nextTicketNum, clock, wvars, ret, hvars, mu,
                   loggerMutex>>

\* One iteration of the loop of ServeTicket, called directly or by
\* ServeCustomer: on an empty slice the method returns the error; otherwise
\* it pops a ticket, and either calls GetLogger and goes round again (the
\* ticket is cancelled) or returns the ticket.
LockServeBody(t) ==
    /\ ~aborted
    /\ th[t].pc = "body" /\ th[t].op \in {"ServeTicket", "ServeCustomer"}
    /\ IF QLen(Heap(tickets, ticketIndexMap)) > 0
       THEN LET p == HeapPop(Heap(tickets, ticketIndexMap))
            IN  /\ tickets' = p.h.tickets
                /\ ticketIndexMap' = p.h.ticketIndexMap
                /\ th' = AfterBody(t, p.ticket.IsCancelled, ~p.ticket.IsCancelled)
       ELSE /\ th' = AfterBody(t, FALSE, FALSE)
            /\ UNCHANGED <<tickets, ticketIndexMap>>
    /\ UNCHANGED <<nextTicketNum, clock, aborted, wvars, ret, hvars, mu, loggerMutex>>

\* The body of ResetTicketNumber: it calls GetLogger once on either outcome
\* and returns.
LockResetBody(t) ==
    /\ ~aborted
    /\ th[t].pc = "body" /\ th[t].op = "ResetTicketNumber"
    /\ IF ResetAllowed(tickets)
       THEN /\ nextTicketNum' = 0
            /\ tickets' = <<>>
            /\ ticketIndexMap' = EmptyMap
       ELSE UNCHANGED qvars
    /\ th' = AfterBody(t, TRUE, FALSE)
    /\ UNCHANGED <<clock, aborted, wvars, ret, hvars, mu, loggerMutex>>

\* loggerMutex.Lock() returns, in GetLogger or SetLogger.
LoggerLock(t) ==
    /\ ~aborted
    /\ th[t].pc = "loglock"
    /\ loggerMutex = NoThread
    /\ loggerMutex' = t
    /\ th' = [th EXCEPT ![t].pc = "logger"]
    /\ UNCHANGED <<qvars, clock, aborted, wvars, ret, hvars, mu>>

\* GetLogger or SetLogger returns, running the deferred loggerMutex.Unlock.
\* Inside the queue's lock, the loop of ServeTicket goes round again and
\* ResetTicketNumber returns; in ServeCustomer this was the last statement,
\* and the deferred wg.Done runs; a direct call is over.
LoggerUnlock(t) ==
    /\ ~aborted
    /\ th[t].pc = "logger"
    /\ loggerMutex' = NoThread
    /\ IF mu = t
       THEN /\ th' = [th EXCEPT ![t].pc = IF th[t].op = "ResetTicketNumber"
                                           THEN "unlock" ELSE "body"]
            /\ UNCHANGED wg
       ELSE /\ th' = [th EXCEPT ![t] = NoCall]
            /\ wg' = IF th[t].op = "ServeCustomer" THEN wg - 1 ELSE wg
    /\ UNCHANGED <<qvars, clock, aborted, mainpc, pc, wticket, done, hres, calls, ret,
                   hvars, mu>>

\* MuUnlock keeping q.mu while the handler of ServeCustomer runs.
MuUnlockAfterHandler(t) ==
    /\ ~aborted
    /\ th[t].pc = "unlock"
    /\ mu = t
    /\ IF th[t].op = "ServeCustomer" /\ th[t].found
       THEN /\ th' = [th EXCEPT ![t].pc = "handler"]
            /\ UNCHANGED mu
       ELSE /\ th' = [th EXCEPT ![t] = NoCall]
            /\ mu' = NoThread
    /\ UNCHANGED <<qvars, clock, aborted, wvars, ret, hvars, loggerMutex>>

\* The method returns and the deferred q.mu.Unlock runs.  ServeCustomer goes
\* on to its handler when ServeTicket returned a ticket, and returns after
\* an empty-queue error, without wg.Done.
MuUnlock(t) ==
    /\ ~aborted
    /\ th[t].pc = "unlock"
    /\ mu = t
    /\ mu' = NoThread
    /\ th' = IF th[t].op = "ServeCustomer" /\ th[t].found
             THEN [th EXCEPT ![t].pc = "handler"]
             ELSE [th EXCEPT ![t] = NoCall]
    /\ UNCHANGED <<qvars, clock, aborted, wvars, ret, hvars, loggerMutex>>

\* The handler returns (nil or an error); ServeCustomer then logs the
\* outcome through GetLogger.
LockHandlerReturn(t) ==
    /\ ~aborted
    /\ th[t].pc = "handler"
    /\ th' = [th EXCEPT ![t].pc = "loglock"]
    /\ UNCHANGED <<qvars, clock, aborted, wvars, ret, hvars, mu, loggerMutex>>

NextLock ==
    \/ \E t \in LockThreads, p \in Priorities : LockCall(t, "IssueTicket", p)
    \/ \E t \in LockThreads, n \in PoolNumbers : LockCall(t, "CancelTicket", n)
    \/ \E t \in LockThreads, op \in {"ServeTicket", "ResetTicketNumber"} \cup LoggerCalls :
          LockCall(t, op, 0)
    \/ \E t \in LockThreads : LockServeCustomer(t)
    \/ \E t \in LockThreads : MuLock(t)
    \/ \E t \in LockThreads : LockIssueBody(t)
    \/ \E t \in LockThreads : LockCancelBody(t)
    \/ \E t \in LockThreads : LockServeBody(t)
    \/ \E t \in LockThreads : LockResetBody(t)
    \/ \E t \in LockThreads : LoggerLock(t)
    \/ \E t \in LockThreads : LoggerUnlock(t)
    \/ \E t \in LockThreads : MuUnlock(t)
    \/ \E t \in LockThreads : LockHandlerReturn(t)

\* A step of thread t inside a call it has started, the return of a
\* handler excepted.
LockStep(t) ==
    \/ MuLock(t)
    \/ LockIssueBody(t)
    \/ LockCancelBody(t)
    \/ LockServeBody(t)
    \/ LockResetBody(t)
    \/ LoggerLock(t)
    \/ LoggerUnlock(t)
    \/ MuUnlock(t)

\* Fair scheduling: a running thread takes its next step, and a thread
\* waiting for a mutex that is free again and again gets it (sync.Mutex
\* hands a starving waiter the lock).  Nothing makes a caller start a call or
\* a handler return.
FairLock == \A t \in LockThreads : SF_vars(LockStep(t))

SpecLock == Init /\ [][NextLock]_vars /\ FairLock

----------------------------------------------------------------------------
\* The eager-removal variant (src/unnamed/part_000): a ticket carries
\* QueueTime and IsExpired, Less compares priorities only, CancelTicket
\* removes the ticket from the slice and repairs the heap with heap.Fix,
\* ServeTicket pops once, and ExpireTickets flags the tickets that waited
\* longer than the expiration time.  Swap, Push and Pop are as above.

EagerTicket(number, priority, now) ==
    [Number |-> number, Priority |-> priority, QueueTime |-> now, IsExpired |-> FALSE]

EagerLess(ts, i, j) == At(ts, i).Priority > At(ts, j).Priority

RECURSIVE EagerUp(_, _)
EagerUp(h, j) ==
    IF j = 0
    THEN h
    ELSE LET i == (j - 1) \div 2
         IN  IF ~EagerLess(h.tickets, j, i)
             THEN h
             ELSE EagerUp(Swap(h, i, j), i)

\* down returns the heap and the position the element came to rest at.
RECURSIVE EagerDown(_, _, _)
EagerDown(h, i, n) ==
    LET j1 == 2 * i + 1
    IN  IF j1 >= n
        THEN [h |-> h, i |-> i]
        ELSE LET j2 == j1 + 1
                 j == IF j2 < n /\ EagerLess(h.tickets, j2, j1) THEN j2 ELSE j1
             IN  IF ~EagerLess(h.tickets, j, i)
                 THEN [h |-> h, i |-> i]
                 ELSE EagerDown(Swap(h, i, j), j, n)

EagerHeapPush(h, t) ==
    LET h1 == Push(h, t)
    IN  EagerUp(h1, QLen(h1) - 1)

EagerHeapPop(h) ==
    LET n == QLen(h) - 1
        h1 == Swap(h, 0, n)
        h2 == EagerDown(h1, 0, n).h
    IN  Pop(h2)

\* heap.Fix(q, i) reads q.tickets[i] out of the slice: down makes no
\* comparison when i has no child, and up compares position i with its parent
\* unless i is 0.
EagerFixPanics(h, i) == i > 0 /\ OutOfRange(h.tickets, i)

\* heap.Fix sifts the element down, and up when it did not move down.
EagerFix(h, i) ==
    LET d == EagerDown(h, i, QLen(h))
    IN  IF d.i > i THEN d.h ELSE EagerUp(h, i)

EagerIssueTicket(priority) ==
    /\ ~aborted
    /\ clock < MaxIssue
    /\ LET now == clock + 1
           ticket == EagerTicket(nextTicketNum, priority, now)
           h1 == EagerHeapPush(Heap(tickets, ticketIndexMap), ticket)
       IN  /\ tickets' = h1.tickets
           /\ nextTicketNum' = nextTicketNum + 1
           /\ ticketIndexMap' = MapSet(h1.ticketIndexMap, ticket.Number, Len(h1.tickets) - 1)
           /\ clock' = now
           /\ ret' = Result("IssueTicket", ticket.Number, TRUE, FALSE)
    /\ UNCHANGED <<aborted, wvars, hvars, lvars>>

\* CancelTicket: the last ticket of the slice is written over position
\* index, the slice is shortened, the key is deleted and the heap is fixed at
\* index.  The reads of q.tickets[len-1] and q.tickets[index] and the reads
\* of heap.Fix panic when they are out of the slice.
EagerCancelTicket(ticketNumber) ==
    /\ ~aborted
    /\ IF ticketNumber \in DOMAIN ticketIndexMap
       THEN LET index == ticketIndexMap[ticketNumber]
                n == Len(tickets)
            IN  IF n = 0 \/ OutOfRange(tickets, index)
                THEN /\ aborted' = TRUE
                     /\ ret' = Result("CancelTicket", ticketNumber, FALSE, TRUE)
                     /\ UNCHANGED <<tickets, ticketIndexMap>>
                ELSE LET lastTicket == At(tickets, n - 1)
                         ts1 == [tickets EXCEPT ![index + 1] = lastTicket]
                         m1 == MapSet(ticketIndexMap, lastTicket.Number, index)
                         h2 == Heap(SubSeq(ts1, 1, n - 1), MapDelete(m1, ticketNumber))
                     IN  IF EagerFixPanics(h2, index)
                         THEN /\ tickets' = h2.tickets
                              /\ ticketIndexMap' = h2.ticketIndexMap
                              /\ aborted' = TRUE
                              /\ ret' = Result("CancelTicket", ticketNumber, FALSE, TRUE)
                         ELSE /\ tickets' = EagerFix(h2, index).tickets
                              /\ ticketIndexMap' = EagerFix(h2, index).ticketIndexMap
                              /\ ret' = Result("CancelTicket", ticketNumber, TRUE, FALSE)
                              /\ UNCHANGED aborted
       ELSE /\ ret' = Result("CancelTicket", ticketNumber, FALSE, FALSE)
            /\ UNCHANGED <<tickets, ticketIndexMap, aborted>>
    /\ UNCHANGED <<nextTicketNum, clock, wvars, hvars, lvars>>

EagerServeTicket ==
    /\ ~aborted
    /\ IF Len(tickets) = 0
       THEN /\ ret' = Result("ServeTicket", NoTicket.Number, FALSE, FALSE)
            /\ UNCHANGED <<tickets, ticketIndexMap>>
       ELSE LET p == EagerHeapPop(Heap(tickets, ticketIndexMap))
            IN  /\ tickets' = p.h.tickets
                /\ ticketIndexMap' = MapDelete(p.h.ticketIndexMap, p.ticket.Number)
                /\ ret' = Result("ServeTicket", p.ticket.Number, TRUE, FALSE)
    /\ UNCHANGED <<nextTicketNum, clock, aborted, wvars, hvars, lvars>>

\* ExpireTickets: waited is the latest QueueTime that is older than the
\* expiration time when the call runs.
EagerExpireTickets(waited) ==
    /\ ~aborted
    /\ tickets' = [i \in 1..Len(tickets) |->
                     IF tickets[i].QueueTime <= waited
                     THEN [tickets[i] EXCEPT !.IsExpired = TRUE]
                     ELSE tickets[i]]
    /\ ret' = Result("ExpireTickets", waited, TRUE, FALSE)
    /\ UNCHANGED <<ticketIndexMap, nextTicketNum, clock, aborted, wvars, hvars, lvars>>

\* ResetTicketNumber: refused while the slice holds a ticket; the index is
\* not cleared.
EagerResetTicketNumber ==
    /\ ~aborted
    /\ IF Len(tickets) > 0
       THEN /\ ret' = Result("ResetTicketNumber", -1, FALSE, FALSE)
            /\ UNCHANGED <<tickets, nextTicketNum>>
       ELSE /\ nextTicketNum' = 0
            /\ tickets' = <<>>
            /\ ret' = Result("ResetTicketNumber", -1, TRUE, FALSE)
    /\ UNCHANGED <<ticketIndexMap, clock, aborted, wvars, hvars, lvars>>

EagerGetQueueSize ==
    /\ ~aborted
    /\ ret' = Result("GetQueueSize", Len(tickets), TRUE, FALSE)
    /\ UNCHANGED <<qvars, clock, aborted, wvars, hvars, lvars>>

EagerGetTicketIndex(ticketNumber) ==
    /\ ~aborted
    /\ ret' = IF ticketNumber \in DOMAIN ticketIndexMap
              THEN Result("GetTicketIndex", ticketIndexMap[ticketNumber], TRUE, FALSE)
              ELSE Result("GetTicketIndex", 0, FALSE, FALSE)
    /\ UNCHANGED <<qvars, clock, aborted, wvars, hvars, lvars>>

NextEager ==
    \/ \E priority \in Priorities : EagerIssueTicket(priority)
    \/ \E ticketNumber \in Numbers : EagerCancelTicket(ticketNumber)
    \/ EagerServeTicket
    \/ \E waited \in 0..clock : EagerExpireTickets(waited)
    \/ EagerResetTicketNumber
    \/ EagerGetQueueSize
    \/ \E ticketNumber \in Numbers : EagerGetTicketIndex(ticketNumber)

SpecEager == Init /\ [][NextEager]_vars

----------------------------------------------------------------------------

\* Properties

HeldNumbers == {tickets[i].Number : i \in 1..Len(tickets)}

Held(n) == n \in HeldNumbers

\* The clock value at construction or at the last successful reset: every
\* issuance advances clock and nextTicketNum together, a reset zeroes the
\* counter.
EpochStart == clock - nextTicketNum

\* a is ordered before b: higher Priority, or the same Priority and created earlier.
Before(a, b) ==
    \/ a.Priority > b.Priority
    \/ a.Priority = b.Priority /\ a.CreatedAt < b.CreatedAt

\* C1: index consistency. Every ticket at position i of the slice has
\* ticketIndexMap[Number] = i, and every entry (n -> i) of the index points
\* inside the slice at the ticket whose Number is n.
IndexConsistent ==
    /\ \A i \in 0..(Len(tickets) - 1) :
          /\ At(tickets, i).Number \in DOMAIN ticketIndexMap
          /\ ticketIndexMap[At(tickets, i).Number] = i
    /\ \A n \in DOMAIN ticketIndexMap :
          /\ ticketIndexMap[n] \in 0..(Len(tickets) - 1)
          /\ At(tickets, ticketIndexMap[n]).Number = n

\* C2: a cancelled ticket is never served. When ServeTicket returns a ticket,
\* CancelTicket has not returned true for its Number since the last reset.
CancelledNeverServed ==
    (ret.op = "ServeTicket" /\ ret.res) => ret.n \notin cancelOK

\* C3: no operation of the queue aborts (no out-of-range access, no panic).
NoAbort == ~aborted

\* C4: priority ordering. When ServeTicket returns a ticket t, no ticket held
\* at that call and not cancelled is ordered before t; and t does not come
\* before the ticket returned by the previous ServeTicket call when no ticket
\* was issued in between.
PriorityOrdering ==
    [][servedLog' # servedLog =>
        /\ \A i \in 1..Len(tickets) :
              ~tickets[i].IsCancelled => ~Before(tickets[i], lastServed')
        /\ lastServed # NoTicket => Before(lastServed, lastServed')]_vars

\* Witness of C4: ServeTicket has returned an earlier-issued ticket right after
\* a later-issued one (a higher priority overtook), with tickets still held.
PriorityOrderingWitness ==
    /\ ret.op = "ServeTicket" /\ ret.res
    /\ Len(servedLog) >= 2
    /\ servedLog[Len(servedLog) - 1] > servedLog[Len(servedLog)]
    /\ Len(tickets) >= 1

\* C5: no duplicate delivery. No ticket is returned by two ServeTicket calls,
\* and no two workers hold the same ticket for their handlers.
NoDuplicateDelivery ==
    /\ \A i, j \in 1..Len(servedLog) : i # j => servedLog[i] # servedLog[j]
    /\ \A v, w \in Workers :
          (v # w /\ wticket[v] # NoTicket /\ wticket[w] # NoTicket)
              => wticket[v].CreatedAt # wticket[w].CreatedAt

\* Witness of C5: two workers are inside their handlers at the same time, and
\* a direct ServeTicket call has returned a ticket as well.
NoDuplicateDeliveryWitness ==
    /\ \E v, w \in Workers : v # w /\ pc[v] = "handler" /\ pc[w] = "handler"
    /\ Len(servedLog) >= 2

\* C6: every ServeCustomer call that has returned has called wg.Done exactly
\* once, whatever its outcome.
OneDonePerCall ==
    \A w \in Workers : pc[w] = "returned" => done[w] = 1

\* C7: no lost delivery. ServeTicket discards only tickets CancelTicket was
\* called for; and when ServeTicket reports an empty queue, every ticket issued
\* since the last reset and never the argument of CancelTicket has been
\* returned by exactly one ServeTicket call.
NoLostDelivery ==
    /\ discarded \subseteq cancelCalled
    /\ (ret.op = "ServeTicket" /\ ~ret.res) =>
          \A n \in 0..(nextTicketNum - 1) :
              n \notin cancelCalled =>
                  Cardinality({i \in 1..Len(servedLog) :
                                  servedLog[i] = EpochStart + n + 1}) = 1

\* C8: IsValidTicket(n) returns true exactly when ticket n is held by the
\* queue and CancelTicket has not returned true for n.
IsValidTicketCorrect ==
    ret.op = "IsValidTicket" =>
        /\ ~ret.panic
        /\ ret.res = (Held(ret.n) /\ ret.n \notin cancelOK)

\* C9: reset guard. ResetTicketNumber returns false and changes nothing of the
\* queue when a held ticket is not cancelled; otherwise it returns true and
\* leaves the slice empty, the index empty and nextTicketNum = 0.
ResetGuard ==
    [][ret'.op = "ResetTicketNumber" =>
        IF \E i \in 1..Len(tickets) : ~tickets[i].IsCancelled
        THEN /\ ret'.res = FALSE
             /\ UNCHANGED <<tickets, ticketIndexMap, nextTicketNum>>
        ELSE /\ ret'.res = TRUE
             /\ tickets' = <<>>
             /\ DOMAIN ticketIndexMap' = {}
             /\ nextTicketNum' = 0]_vars

\* Witness of C9: a reset was refused on a queue holding a cancelled and a
\* non-cancelled ticket.
ResetGuardWitness ==
    /\ ret.op = "ResetTicketNumber" /\ ~ret.res
    /\ \E i \in 1..Len(tickets) : tickets[i].IsCancelled
    /\ \E i \in 1..Len(tickets) : ~tickets[i].IsCancelled

\* C10: CancelTicket(n) returns true exactly when ticket n is held by the
\* queue, and false otherwise.
CancelTicketResult ==
    ret.op = "CancelTicket" =>
        /\ ~ret.panic
        /\ ret.res = Held(ret.n)

\* C11: frame of CancelTicket. A CancelTicket(n) call that returns true sets
\* the cancelled flag of the ticket whose Number is n and changes nothing
\* else (the other flags, the contents and order of the slice, its size, the
\* index and nextTicketNum); a call that returns false changes nothing.
CancelTicketFrame ==
    [][(ret'.op = "CancelTicket" /\ ~ret'.panic) =>
        IF ret'.res
        THEN /\ Len(tickets') = Len(tickets)
             /\ \A i \in 1..Len(tickets) :
                   tickets'[i] = IF tickets[i].Number = ret'.n
                                 THEN [tickets[i] EXCEPT !.IsCancelled = TRUE]
                                 ELSE tickets[i]
             /\ UNCHANGED <<ticketIndexMap, nextTicketNum>>
        ELSE UNCHANGED qvars]_vars

\* CreatedAt of the tickets ServeTicket returned since construction or the
\* last successful reset.
ServedThisEpoch == {i \in 1..Len(servedLog) : servedLog[i] > EpochStart}

\* C12: conservation of tickets. Since construction or the last successful
\* reset, (tickets returned by ServeTicket) + (tickets still held) +
\* (cancelled tickets discarded by ServeTicket) = (IssueTicket calls).
Conservation ==
    Cardinality(ServedThisEpoch) + Len(tickets) + Cardinality(discarded)
        = nextTicketNum

\* Witness of C12: after a successful reset and new issuances, each of the
\* three terms is positive.
ConservationWitness ==
    /\ EpochStart > 0
    /\ Cardinality(ServedThisEpoch) >= 1
    /\ Len(tickets) >= 1
    /\ Cardinality(discarded) >= 1

\* C13: the concrete scenario. On a fresh queue, after issuing Alice (1),
\* Bob (3), Charlie (2), David (3) and cancelling Alice's number, three
\* consecutive ServeTicket calls return Bob, David, Charlie in that order
\* (the tickets created second, fourth and third, Numbers 1, 3, 2), a fourth
\* call reports an empty queue, and ResetTicketNumber then returns true.
ScenarioOutcome ==
    /\ ~aborted
    /\ (clock = Len(ScenarioPriority) /\ mainpc = "idle" /\ cancelCalled # {})
          => cancelOK = {0}
    /\ mainpc = "served1" =>
          /\ servedLog = <<2>>
          /\ lastServed.Number = 1 /\ lastServed.Priority = 3
    /\ mainpc = "served2" =>
          /\ servedLog = <<2, 4>>
          /\ lastServed.Number = 3 /\ lastServed.Priority = 3
    /\ mainpc = "served3" =>
          /\ servedLog = <<2, 4, 3>>
          /\ lastServed.Number = 2 /\ lastServed.Priority = 2
    /\ mainpc = "served4" =>
          /\ servedLog = <<2, 4, 3>>
          /\ ret.op = "ServeTicket" => ~ret.res
          /\ ret.op = "ResetTicketNumber" => ret.res

\* Witness of C13: the scenario has run to its end, the reset included.
ScenarioOutcomeWitness ==
    /\ mainpc = "served4"
    /\ Len(servedLog) = 3
    /\ ret.op = "ResetTicketNumber"

\* The order of two uint32 values, on their representatives.
UInt32Less(a, b) == IF (a < 0) = (b < 0) THEN a < b ELSE b < 0

\* C14: ticket numbering. nextTicketNum only increases between resets, each
\* IssueTicket returns a number strictly greater than every number issued
\* since construction or the last successful reset (the numbers of the
\* tickets held are among them), and no two tickets held by the queue carry
\* the same Number.
TicketNumbering ==
    [][/\ nextTicketNum' # nextTicketNum =>
             \/ UInt32Less(nextTicketNum, nextTicketNum')
             \/ ret'.op = "ResetTicketNumber" /\ ret'.res
       /\ clock' # clock =>
             /\ ret'.op = "IssueTicket"
             /\ \A i \in 1..Len(tickets) : UInt32Less(tickets[i].Number, ret'.n)
       /\ \A i, j \in 1..Len(tickets') :
             i # j => tickets'[i].Number # tickets'[j].Number]_vars

\* C15: empty-queue behaviour. A ServeTicket call returns the "no customers
\* in queue" error exactly when the queue holds no non-cancelled ticket at
\* the time of the call, and returns a ticket otherwise; it never waits.
EmptyQueueError ==
    [][ret'.op = "ServeTicket" =>
        ret'.res = (\E i \in 1..Len(tickets) : ~tickets[i].IsCancelled)]_vars

\* Witness of C15: ServeTicket has reported an empty queue after discarding
\* cancelled tickets, on a queue that had served a ticket before.
EmptyQueueErrorWitness ==
    /\ ret.op = "ServeTicket" /\ ~ret.res
    /\ discarded # {}
    /\ ServedThisEpoch # {}
    /\ tickets = <<>>

\* C16: pool completion. Once the caller has registered NumWorkers units and
\* started NumWorkers ServeCustomer calls, under fair scheduling every call
\* finishes and the wait on the counter returns, whatever the number of
\* non-cancelled tickets in the queue.
PoolCompletion ==
    /\ \A w \in Workers : (pc[w] = "start") ~> (pc[w] = "returned")
    /\ (mainpc = "waiting") ~> (mainpc = "idle")

\* C17: handler failure does not touch the queue. When the handler of a
\* ServeCustomer call returns (an error or nil), the slice, the index and
\* nextTicketNum are left as they were, and the ticket the handler was given
\* is not put back into the queue.
HandlerFailureFrame ==
    [][\A w \in Workers :
          (pc[w] = "handler" /\ pc'[w] = "returned") =>
              /\ hres'[w] \in {"nil", "error"}
              /\ UNCHANGED <<tickets, ticketIndexMap, nextTicketNum>>
              /\ \A i \in 1..Len(tickets') :
                    tickets'[i].CreatedAt # wticket[w].CreatedAt]_vars

\* Witness of C17: a handler has failed while the queue held a ticket.
HandlerFailureFrameWitness ==
    /\ \E w \in Workers : pc[w] = "returned" /\ hres[w] = "error"
    /\ Len(tickets) >= 1

\* The cancelled tickets a ServeTicket call meets before a valid one: those
\* ordered before the first non-cancelled ticket, or all the held tickets
\* when none is valid.
MetCancelled(ts) ==
    {i \in 1..Len(ts) :
        /\ ts[i].IsCancelled
        /\ \A j \in 1..Len(ts) : ~ts[j].IsCancelled => Before(ts[i], ts[j])}

\* C18: lazy deletion. A ServeTicket call that meets k cancelled tickets
\* before a valid one removes exactly those k tickets and the returned one
\* (the size decreases by k + 1, or by k when the call ends with the
\* empty-queue error); the number of an extracted ticket leaves
\* ticketIndexMap, and no ticket enters the slice or the index except a
\* newly issued one, so an extracted ticket is never held again.
LazyDeletion ==
    [][/\ ret'.op = "ServeTicket" =>
             LET k == Cardinality(MetCancelled(tickets))
                 gone == {tickets[i] : i \in MetCancelled(tickets)}
                             \cup (IF ret'.res THEN {lastServed'} ELSE {})
             IN  /\ Len(tickets') = Len(tickets) - (IF ret'.res THEN k + 1 ELSE k)
                 /\ {tickets'[i] : i \in 1..Len(tickets')}
                        = {tickets[i] : i \in 1..Len(tickets)} \ gone
                 /\ discarded' = discarded \cup {tickets[i].Number : i \in MetCancelled(tickets)}
                 /\ \A t \in gone : t.Number \notin DOMAIN ticketIndexMap'
       /\ \A i \in 1..Len(tickets') :
             \/ \E j \in 1..Len(tickets) : tickets[j].CreatedAt = tickets'[i].CreatedAt
             \/ ret'.op = "IssueTicket" /\ tickets'[i].CreatedAt = clock' /\ clock' > clock
       /\ \A n \in DOMAIN ticketIndexMap' :
             \/ n \in DOMAIN ticketIndexMap
             \/ ret'.op = "IssueTicket" /\ n = ret'.n]_vars

\* Witness of C18: a ServeTicket call has discarded a cancelled ticket and
\* returned a valid one, leaving tickets in the queue.
LazyDeletionWitness ==
    /\ ret.op = "ServeTicket" /\ ret.res
    /\ discarded # {}
    /\ lastServed.Number \notin discarded
    /\ Len(tickets) >= 1

\* C19: a ServeCustomer call calls ServeTicket exactly once; it invokes the
\* handler exactly once, with the ticket that call returned, when the call
\* yields a ticket, and not at all when it reports an empty queue.
HandlerOncePerTicket ==
    \A w \in Workers :
        /\ pc[w] = "start" => calls[w] = NoCalls
        /\ pc[w] \in {"handler", "returned"} =>
              /\ calls[w].ServeTicket = 1
              /\ IF wticket[w] # NoTicket
                 THEN /\ calls[w].serveFn = 1
                      /\ calls[w].arg = wticket[w]
                      /\ \E i \in 1..Len(servedLog) : servedLog[i] = wticket[w].CreatedAt
                 ELSE /\ calls[w].serveFn = 0
                      /\ pc[w] = "returned"
                      /\ hres[w] = "none"

\* Witness of C19: of two ServeCustomer calls that have returned, one ran its
\* handler on a ticket and the other found the queue empty.
HandlerOncePerTicketWitness ==
    \E v, w \in Workers :
        /\ pc[v] = "returned" /\ calls[v].serveFn = 1 /\ hres[v] # "none"
        /\ pc[w] = "returned" /\ calls[w].serveFn = 0 /\ wticket[w] = NoTicket

\* C20: in the variant of queue_system.go, after the demo sequence (issue
\* Alice, Bob, Charlie, David, cancel Alice, three concurrent ServeCustomer
\* calls all completed), ResetTicketNumber returns true.
DemoResetSucceeds ==
    mainpc = "end" =>
        /\ \A w \in DemoWorkers : pc[w] = "returned" /\ done[w] = 1
        /\ ret.op = "ResetTicketNumber"
        /\ ret.res

\* C21: heap order. Between operations, for every position i > 0 of the
\* slice the ticket at position (i - 1) / 2 is not ordered after the ticket
\* at position i (Priority descending, CreatedAt ascending), cancelled
\* tickets included.
HeapOrdered ==
    \A i \in 1..(Len(tickets) - 1) :
        ~Before(At(tickets, i), At(tickets, (i - 1) \div 2))

\* Witness of C21: after a pop and a cancellation, the heap holds at least
\* three tickets that are not in sorted order (the ticket at position 2 is
\* ordered before the one at position 1), one of them cancelled.
HeapOrderedWitness ==
    /\ Len(tickets) >= 3
    /\ Before(At(tickets, 2), At(tickets, 1))
    /\ \E i \in 1..Len(tickets) : tickets[i].IsCancelled
    /\ ret.op = "CancelTicket" /\ ret.res
    /\ servedLog # <<>>

\* C22: index membership. Between operations, the keys of ticketIndexMap are
\* the Numbers of the tickets in the slice, cancelled ones included, and the
\* index has as many entries as the slice has tickets (so GetTicketIndex(n)
\* reports found exactly for the tickets held, and the number of entries
\* equals GetQueueSize).
IndexMembership ==
    /\ DOMAIN ticketIndexMap = HeldNumbers
    /\ Cardinality(DOMAIN ticketIndexMap) = Len(tickets)

\* The thread t is inside a call of the queue or of the logger registry and
\* is not inside a handler.
InCall(t) == th[t].pc \in {"lock", "body", "loglock", "logger", "unlock"}

\* C23: the handler runs outside the queue's lock and the locks are taken
\* in one order.  A thread inside its handler holds neither lock; a thread
\* holding loggerMutex is not waiting for q.mu; and under fair scheduling
\* every call of IssueTicket, CancelTicket, ServeTicket, ResetTicketNumber,
\* SetLogger or GetLogger that has started returns, also while a handler
\* runs that never returns (a panic of the program apart).
HandlerOutsideLock ==
    /\ [](\A t \in LockThreads :
            /\ th[t].pc = "handler" => (mu # t /\ loggerMutex # t)
            /\ loggerMutex = t => th[t].pc = "logger")
    /\ \A t \in LockThreads : InCall(t) ~> (~InCall(t) \/ aborted)

\* Witness of C23: while the worker is inside its handler, the other caller
\* holds q.mu and loggerMutex inside ServeTicket, logging a cancelled ticket
\* it skips.
HandlerOutsideLockWitness ==
    /\ th["worker"].pc = "handler"
    /\ \E t \in LockThreads :
          /\ mu = t /\ loggerMutex = t
          /\ th[t].op = "ServeTicket"

\* The eager-removal variant's slice is a heap under its Less and its index
\* gives every held ticket's position.
EagerHeapOrdered(ts) ==
    \A i \in 1..(Len(ts) - 1) : ~EagerLess(ts, i, (i - 1) \div 2)

EagerIndexConsistent(ts, m) ==
    /\ DOMAIN m = {ts[i].Number : i \in 1..Len(ts)}
    /\ \A i \in 1..Len(ts) : m[ts[i].Number] = i - 1

\* C24: in the eager-removal variant, CancelTicket(n) of a ticket n the
\* queue holds, at any heap position, returns true without a panic, removes
\* ticket n and no other from the slice and the index (the size goes down by
\* one), and leaves the slice heap-ordered and the index consistent.
EagerCancelRemoves ==
    [][(ret'.op = "CancelTicket" /\ Held(ret'.n)) =>
        /\ ~ret'.panic
        /\ ret'.res
        /\ Len(tickets') = Len(tickets) - 1
        /\ {tickets'[i] : i \in 1..Len(tickets')}
              = {tickets[i] : i \in {k \in 1..Len(tickets) : tickets[k].Number # ret'.n}}
        /\ DOMAIN ticketIndexMap' = DOMAIN ticketIndexMap \ {ret'.n}
        /\ EagerHeapOrdered(tickets')
        /\ EagerIndexConsistent(tickets', ticketIndexMap')]_vars

====
